---- MODULE Spec2Model ----
(***************************************************************************)
(* State-machine model of the To-do-List FastAPI backend: the persistence  *)
(* tables (user, task, change), the bearer tokens held by clients, the     *)
(* clock, and one action per route handler.  Strings that the code         *)
(* transforms (passwords, stored secrets) are sequences of segments, so    *)
(* that hashing is a real conversion; Optional[...] values are <<>> (None) *)
(* or <<x>>.                                                                *)
(***************************************************************************)
EXTENDS Integers, Sequences, FiniteSets, TLC

VARIABLES
    users,      \* table "user":   id -> [email, password, role, is_active]
    nextUserId, \* AutoField counter of table "user"
    tasks,      \* table "task":   id -> [user_id, title, status_id, is_favorite,
                \*                         expiration_date]
    nextTaskId, \* AutoField counter of table "task"
    changes,    \* table "change": sequence of [task, field_changed, old_value, new_value]
    tokens,     \* tokens handed out: [jwt, data, ttl, at, holder], a token and its issuance
    now,        \* the clock, in whole seconds (the resolution of the exp claim)
    last,       \* the last request and its response
    inflight    \* requests between two accesses of the tables: [client, op, tok,
                \*   arg, principal, read], a handler's locals after its first access

vars == <<users, nextUserId, tasks, nextTaskId, changes, tokens, now, last, inflight>>

(* ------------------------------ bounds -------------------------------- *)
MaxUsers == 2
MaxTasks == 1
MaxTokens == 1
MaxChanges == 1
MaxNow == 2801

(* ------------------------- program constants -------------------------- *)
ACCESS_TOKEN_EXPIRE_MINUTES == 30
SECRET_KEY == "SECRET_KEY"

None == <<>>
Some(x) == <<x>>

\* Table "role" as the first migration seeds it; no route changes it.
roles == (1 :> "Administrator") @@ (2 :> "User")

(* ----------------------------- inputs --------------------------------- *)
Emails == {"a@x.io", "b@x.io"}
Passwords == {<<"p1">>, <<"p2">>}
Salts == {"s1"}
TamperKey == "not-the-key"

(* ------------------------- Credential hashing ------------------------- *)
\* pwd_context.hash: a bcrypt string, "$2b$" salt digest.
get_password_hash(password, salt) == <<"$2b$", salt>> \o password

\* passlib's identification of the scheme of a stored string.
identify(stored) == Len(stored) >= 2 /\ stored[1] = "$2b$"

\* A faulty variant: no password verifies.
verify_password_never(plain_password, password) ==
    IF ~identify(password) THEN "raise" ELSE "false"

\* pwd_context.verify: "raise" is passlib's UnknownHashError.
verify_password(plain_password, password) ==
    IF ~identify(password) THEN "raise"
    ELSE IF get_password_hash(plain_password, password[2]) = password THEN "true"
    ELSE "false"

(* ---------------------------- Token service --------------------------- *)
\* jose's jwt.encode with HS256: the signature is a function of key and claims.
jwt_encode(claims, key) == [claims |-> claims, sig |-> <<key, claims>>]

\* timedelta truthiness: None and timedelta(0) are both falsy.
Truthy(expires_delta) == expires_delta # None /\ expires_delta[1] # 0

\* A faulty variant: the expiry lies before the moment of issuance.
create_access_token_backdated(data, expires_delta, t) ==
    LET expire == t - (IF Truthy(expires_delta) THEN expires_delta[1]
                       ELSE ACCESS_TOKEN_EXPIRE_MINUTES * 60)
    IN  jwt_encode([sub |-> data.sub, exp |-> expire], SECRET_KEY)

create_access_token(data, expires_delta, t) ==
    LET expire == t + (IF Truthy(expires_delta) THEN expires_delta[1]
                       ELSE ACCESS_TOKEN_EXPIRE_MINUTES * 60)
    IN  jwt_encode([sub |-> data.sub, exp |-> expire], SECRET_KEY)

\* A faulty variant: decoding that does not verify the signature.
jwt_decode_unverified(token, key, t) ==
    IF token.claims.exp < t THEN [ok |-> FALSE, claims |-> token.claims]
    ELSE [ok |-> TRUE, claims |-> token.claims]

\* jose's jwt.decode: signature first, then the exp claim (expired when exp < now).
jwt_decode(token, key, t) ==
    IF token.sig # <<key, token.claims>> THEN [ok |-> FALSE, claims |-> token.claims]
    ELSE IF token.claims.exp < t THEN [ok |-> FALSE, claims |-> token.claims]
    ELSE [ok |-> TRUE, claims |-> token.claims]

\* The try block of AuthService.get_current_user: the subject, or None (Invalid).
validate(token, t) ==
    LET payload == jwt_decode(token, SECRET_KEY, t)
    IN  IF ~payload.ok THEN None
        ELSE IF payload.claims.sub = None THEN None
        ELSE payload.claims.sub

\* A copy of a token whose signature segment was altered.
Tamper(token) == [token EXCEPT !.sig = <<TamperKey, token.claims>>]

(* --------------------------- Identity resolver ------------------------ *)
UserRead(id) ==
    [id |-> id, email |-> users[id].email, role_id |-> users[id].role,
     is_active |-> users[id].is_active,
     role |-> [id |-> users[id].role, name |-> roles[users[id].role]]]

\* A faulty variant: the lookup finds nobody.
get_user_by_email_none(email) == None

\* A faulty variant: the lookup ignores the email it is given.
get_user_by_email_any(email) ==
    IF DOMAIN users = {} THEN None
    ELSE Some(UserRead(CHOOSE id \in DOMAIN users : TRUE))

get_user_by_email(email) ==
    LET found == {id \in DOMAIN users : users[id].email = email}
    IN  IF found = {} THEN None ELSE Some(UserRead(CHOOSE id \in found : TRUE))

get_user_by_id(user_id) ==
    IF user_id \in DOMAIN users THEN Some(UserRead(user_id)) ELSE None

\* AuthService.get_current_user: the principal, or None (HTTP 401).
AuthService_get_current_user(token) ==
    LET email == validate(token, now)
    IN  IF email = None THEN None ELSE get_user_by_email(email[1])

\* A faulty variant: a deactivated principal is turned away.
get_current_user_active_only(tok) ==
    LET current_user == IF tok = None THEN None
                        ELSE AuthService_get_current_user(tok[1])
    IN  IF current_user # None /\ ~current_user[1].is_active THEN None
        ELSE current_user

\* utils.dependencies.get_current_user behind OAuth2PasswordBearer.
get_current_user(tok) ==
    IF tok = None THEN None ELSE AuthService_get_current_user(tok[1])

\* utils.dependencies.get_current_admin: the status and the principal.
get_current_admin(tok) ==
    LET current_user == get_current_user(tok)
    IN  IF current_user = None THEN [status |-> 401, user |-> None]
        ELSE IF current_user[1].role.name # "Administrator"
             THEN [status |-> 403, user |-> current_user]
        ELSE [status |-> 200, user |-> current_user]

\* The bearer credentials a request can carry.
ReqTokens ==
    {None} \cup {Some(t.jwt) : t \in tokens} \cup {Some(Tamper(t.jwt)) : t \in tokens}

\* What a client keeps of an issuance: the token, and what it was issued for.
\* holder is the principal that logged in, with its is_active flag of that
\* moment (None without a login).
Issued(jwt, data, expires_delta, t, holder) ==
    [jwt |-> jwt, data |-> data, ttl |-> expires_delta, at |-> t, holder |-> holder]

\* The operations that take a bearer token through oauth2_scheme.
TaskOps == {"create_task", "get_task", "update_task", "delete_task", "list_tasks",
            "toggle_favorite", "get_task_changes"}
AdminDependentOps == {"create_user", "get_user", "update_user", "delete_user",
                      "toggle_user_active"}

\* The detail of the HTTPException behind an error status: each raise site of
\* the code has one fixed text.  OAuth2PasswordBearer answers a request without
\* a bearer token itself ("Not authenticated"); the credentials_exception of
\* AuthService.get_current_user answers every token that fails.
Detail(op, tok, status) ==
    IF status = 401 /\ op = "login" THEN "Invalid credentials"
    ELSE IF status = 401 /\ op = "authenticate" THEN "Could not validate credentials"
    ELSE IF status = 401 /\ tok = None THEN "Not authenticated"
    ELSE IF status = 401 THEN "Could not validate credentials"
    ELSE IF status = 403 THEN "Access forbidden: Administrator access required"
    ELSE IF status = 404 /\ op \in TaskOps THEN "Task not found"
    ELSE IF status = 404 /\ op \in AdminDependentOps THEN "User not found"
    ELSE IF status = 404 /\ op = "register" THEN "Role not found"
    ELSE IF status = 400 /\ op = "register" THEN "Email already registered"
    ELSE IF status = 422 THEN "RequestValidationError"
    ELSE IF status = 500 THEN "Internal Server Error"
    ELSE ""

Response(op, tok, arg, status, principal, out) ==
    [op |-> op, tok |-> tok, arg |-> arg, status |-> status,
     principal |-> principal, out |-> out, detail |-> Detail(op, tok, status)]

(* ------------------------------- Init --------------------------------- *)
Init ==
    /\ users = <<>>
    /\ nextUserId = 1
    /\ tasks = <<>>
    /\ nextTaskId = 1
    /\ changes = <<>>
    /\ tokens = {}
    /\ now = 1000
    /\ last = Response("start", None, <<>>, 0, None, <<>>)
    /\ inflight = {}


(* --------------------------- UserService ------------------------------ *)
\* A faulty variant: the role is not looked up before the row is inserted.
create_user_any_role(email, password, role_id) ==
    IF \E id \in DOMAIN users : users[id].email = email
    THEN [status |-> 500, row |-> None]
    ELSE [status |-> 201,
          row |-> Some([email |-> email, password |-> password,
                        role |-> role_id, is_active |-> TRUE])]

\* UserService.create_user: 404 for an unknown role, 500 for any other fault
\* (the unique index on email), else the row that UserModel.create inserts.
create_user(email, password, role_id) ==
    IF role_id \notin DOMAIN roles THEN [status |-> 404, row |-> None]
    ELSE IF \E id \in DOMAIN users : users[id].email = email
         THEN [status |-> 500, row |-> None]
    ELSE [status |-> 201,
          row |-> Some([email |-> email, password |-> password,
                        role |-> role_id, is_active |-> TRUE])]

\* UserService.get_user_by_email_login over the rows of a user table.
get_user_by_email_login(table, email) ==
    {id \in DOMAIN table : table[id].email = email}

\* AuthService.authenticate_user over the rows of a user table.
authenticate_user_over(table, email, password) ==
    LET found == get_user_by_email_login(table, email)
        id == CHOOSE i \in found : TRUE
        verified == verify_password(password, table[id].password)
    IN  IF found = {} THEN [outcome |-> "None", id |-> 0]
        ELSE IF verified = "raise" THEN [outcome |-> "raise", id |-> id]
        ELSE IF verified = "false" THEN [outcome |-> "None", id |-> id]
        ELSE [outcome |-> "user", id |-> id]

\* AuthService.authenticate_user.
authenticate_user(email, password) == authenticate_user_over(users, email, password)

\* The status of POST /login for what authenticate_user gave: the token, the
\* HTTPException of the handler, or the exception that nothing handles.
login_status(user) ==
    IF user.outcome = "user" THEN 200
    ELSE IF user.outcome = "raise" THEN 500
    ELSE 401

\* str.strip() of a password leaves nothing: the empty string <<"">> and a
\* string of spaces.
Blank(s) == \A i \in 1..Len(s) : s[i] \in {"", " "}

\* The strings that pydantic accepts as EmailStr; "" is not one of them.  An
\* apostrophe is allowed in the local part of an address, which the regular
\* expression of UserService.email_format does not match.
EmailStrs == Emails \cup {"o'c@x.io"}
\* Validation of the request body against UserCreate or UserUpdate, which
\* FastAPI does before it calls the handler.
RequestValidation(email) ==
    IF email # None /\ email[1] \notin EmailStrs THEN "RequestValidationError" ELSE "ok"

\* UserService.email_format: the inputs that match its regular expression.
RegexEmails == Emails
email_format(email) == email \in RegexEmails

\* A faulty variant: the new role is stored without looking it up.
update_user_unchecked_role(user_id, email, password, role_id) ==
    IF user_id \notin DOMAIN users THEN [raise |-> "HTTPException404", row |-> None]
    ELSE IF email # None /\ (\E id \in DOMAIN users : users[id].email = email[1] /\ id # user_id)
         THEN [raise |-> "ValueError", row |-> None]
    ELSE [raise |-> "no",
          row |-> Some([email |-> IF email # None THEN email[1] ELSE users[user_id].email,
                        password |-> IF password # None THEN password[1]
                                     ELSE users[user_id].password,
                        role |-> IF role_id # None THEN role_id[1] ELSE users[user_id].role,
                        is_active |-> users[user_id].is_active])]

\* A faulty variant: the new password is not assigned to the row.
update_user_keeps_password(user_id, email, password, role_id) ==
    IF email # None /\ email[1] = "" THEN [raise |-> "ValueError", row |-> None]
    ELSE IF password # None /\ Blank(password[1]) THEN [raise |-> "ValueError", row |-> None]
    ELSE IF role_id # None /\ role_id[1] = 0 THEN [raise |-> "ValueError", row |-> None]
    ELSE IF user_id \notin DOMAIN users THEN [raise |-> "HTTPException404", row |-> None]
    ELSE IF email # None /\ ~email_format(email[1]) THEN [raise |-> "ValueError", row |-> None]
    ELSE IF email # None /\ (\E id \in DOMAIN users : users[id].email = email[1] /\ id # user_id)
         THEN [raise |-> "ValueError", row |-> None]
    ELSE IF role_id # None /\ role_id[1] \notin DOMAIN roles
         THEN [raise |-> "ValueError", row |-> None]
    ELSE [raise |-> "no",
          row |-> Some([email |-> IF email # None THEN email[1] ELSE users[user_id].email,
                        password |-> users[user_id].password,
                        role |-> IF role_id # None THEN role_id[1] ELSE users[user_id].role,
                        is_active |-> users[user_id].is_active])]

\* A faulty variant: a role that is not in the role table is skipped, and the
\* other fields of the request are saved.
update_user_partial(user_id, email, password, role_id) ==
    IF email # None /\ email[1] = "" THEN [raise |-> "ValueError", row |-> None]
    ELSE IF password # None /\ Blank(password[1]) THEN [raise |-> "ValueError", row |-> None]
    ELSE IF role_id # None /\ role_id[1] = 0 THEN [raise |-> "ValueError", row |-> None]
    ELSE IF user_id \notin DOMAIN users THEN [raise |-> "HTTPException404", row |-> None]
    ELSE IF email # None /\ ~email_format(email[1]) THEN [raise |-> "ValueError", row |-> None]
    ELSE IF email # None /\ (\E id \in DOMAIN users : users[id].email = email[1] /\ id # user_id)
         THEN [raise |-> "ValueError", row |-> None]
    ELSE [raise |-> "no",
          row |-> Some([email |-> IF email # None THEN email[1] ELSE users[user_id].email,
                        password |-> IF password # None THEN password[1]
                                     ELSE users[user_id].password,
                        role |-> IF role_id # None /\ role_id[1] \in DOMAIN roles
                                 THEN role_id[1] ELSE users[user_id].role,
                        is_active |-> users[user_id].is_active])]

\* UserService.update_user up to save(): the row to save, or the exception.
update_user(user_id, email, password, role_id) ==
    IF email # None /\ email[1] = "" THEN [raise |-> "ValueError", row |-> None]
    ELSE IF password # None /\ Blank(password[1]) THEN [raise |-> "ValueError", row |-> None]
    ELSE IF role_id # None /\ role_id[1] = 0 THEN [raise |-> "ValueError", row |-> None]
    ELSE IF user_id \notin DOMAIN users THEN [raise |-> "HTTPException404", row |-> None]
    ELSE IF email # None /\ ~email_format(email[1]) THEN [raise |-> "ValueError", row |-> None]
    ELSE IF email # None /\ (\E id \in DOMAIN users : users[id].email = email[1] /\ id # user_id)
         THEN [raise |-> "ValueError", row |-> None]
    ELSE IF role_id # None /\ role_id[1] \notin DOMAIN roles
         THEN [raise |-> "ValueError", row |-> None]
    ELSE [raise |-> "no",
          row |-> Some([email |-> IF email # None THEN email[1] ELSE users[user_id].email,
                        password |-> IF password # None THEN password[1]
                                     ELSE users[user_id].password,
                        role |-> IF role_id # None THEN role_id[1] ELSE users[user_id].role,
                        is_active |-> users[user_id].is_active])]

\* UserService.list_all_users.
list_all_users == {id \in DOMAIN users : users[id].role = 2}

\* Rows of a table without the given ids (DELETE, and ON DELETE CASCADE).
Without(table, ids) == [id \in DOMAIN table \ ids |-> table[id]]
WithoutTasks(log, ids) == SelectSeq(log, LAMBDA c : c.task \notin ids)

(* ------------------------------ auth routes --------------------------- *)
UnchangedTasks == UNCHANGED <<tasks, nextTaskId, changes>>
UnchangedUsers == UNCHANGED <<users, nextUserId>>

\* POST /register
register(email, password, role_id, salt) ==
    LET arg == <<email, password, role_id>>
        existing_user == get_user_by_email(email)
        hashed_password == get_password_hash(password, salt)
        created == create_user(email, hashed_password, role_id)
    IN  /\ IF RequestValidation(Some(email)) # "ok"
           THEN /\ UnchangedUsers
                /\ last' = Response("register", None, arg, 422, None, None)
           ELSE IF existing_user # None
           THEN /\ UnchangedUsers
                /\ last' = Response("register", None, arg, 400, None, None)
           ELSE IF created.status # 201
           THEN /\ UnchangedUsers
                /\ last' = Response("register", None, arg, created.status, None, None)
           ELSE /\ nextUserId <= MaxUsers
                /\ users' = users @@ (nextUserId :> created.row[1])
                /\ nextUserId' = nextUserId + 1
                /\ last' = Response("register", None, arg, 201, None, Some(nextUserId))
        /\ UnchangedTasks
        /\ UNCHANGED inflight
        /\ UNCHANGED <<tokens, now>>

\* A faulty variant: a login that is refused for a wrong password locks the
\* principal out.
login_lockout(email, password) ==
    LET arg == <<email, password>>
        user == authenticate_user(email, password)
        data == [sub |-> Some(users[user.id].email)]
        access_token == create_access_token(data, None, now)
        holder == [id |-> user.id, is_active |-> users[user.id].is_active]
        issued == Issued(access_token, data, None, now, Some(holder))
    IN  /\ IF user.outcome = "user"
           THEN /\ Cardinality(tokens \cup {issued}) <= MaxTokens
                /\ tokens' = tokens \cup {issued}
                /\ UNCHANGED users
                /\ last' = Response("login", None, arg, 200, None, Some(access_token))
           ELSE /\ UNCHANGED tokens
                /\ users' = IF user.id \in DOMAIN users
                            THEN [users EXCEPT ![user.id].is_active = FALSE]
                            ELSE users
                /\ last' = Response("login", None, arg, login_status(user), None, None)
        /\ UNCHANGED nextUserId
        /\ UnchangedTasks
        /\ UNCHANGED inflight
        /\ UNCHANGED now

\* POST /login
login(email, password) ==
    LET arg == <<email, password>>
        user == authenticate_user(email, password)
        data == [sub |-> Some(users[user.id].email)]
        access_token == create_access_token(data, None, now)
        holder == [id |-> user.id, is_active |-> users[user.id].is_active]
        issued == Issued(access_token, data, None, now, Some(holder))
    IN  /\ IF user.outcome = "user"
           THEN /\ Cardinality(tokens \cup {issued}) <= MaxTokens
                /\ tokens' = tokens \cup {issued}
                /\ last' = Response("login", None, arg, 200, None, Some(access_token))
           ELSE /\ UNCHANGED tokens
                /\ last' = Response("login", None, arg, login_status(user), None, None)
        /\ UnchangedUsers
        /\ UnchangedTasks
        /\ UNCHANGED inflight
        /\ UNCHANGED now

\* Time passes between requests: the clock moves on to d seconds after the
\* expiry of a token in circulation.
Tick(d) ==
    /\ \E tok \in tokens :
          /\ tok.jwt.claims.exp + d > now
          /\ tok.jwt.claims.exp + d <= MaxNow
          /\ now' = tok.jwt.claims.exp + d
    /\ last' = Response("tick", None, <<>>, 0, None, None)
    /\ UnchangedUsers
    /\ UnchangedTasks
    /\ UNCHANGED inflight
    /\ UNCHANGED tokens


\* A client drops a token it holds (the server keeps no record of tokens).
discard_token(issued) ==
    /\ issued \in tokens
    /\ tokens' = tokens \ {issued}
    /\ last' = Response("discard_token", None, <<>>, 0, None, None)
    /\ UnchangedUsers
    /\ UnchangedTasks
    /\ UNCHANGED inflight
    /\ UNCHANGED now

(* --------------------- the token service on its own ------------------- *)
TokenData == {[sub |-> Some("a@x.io")], [sub |-> None]}
Ttls == {None, Some(-1), Some(0), Some(1), Some(60)}

\* A call of AuthService.create_access_token(data, expires_delta).
issue(data, expires_delta) ==
    LET access_token == create_access_token(data, expires_delta, now)
        issued == Issued(access_token, data, expires_delta, now, None)
    IN  /\ Cardinality(tokens \cup {issued}) <= MaxTokens
        /\ tokens' = tokens \cup {issued}
        /\ last' = Response("issue", None, <<data, expires_delta, now>>, 0, None,
                            Some(access_token))
        /\ UnchangedUsers
        /\ UnchangedTasks
        /\ UNCHANGED inflight
        /\ UNCHANGED now

\* A call of AuthService.get_current_user(token): out is the subject that the
\* try block extracted (None when it raised), principal the user returned.
authenticate(token) ==
    LET user == AuthService_get_current_user(token)
    IN  /\ last' = Response("authenticate", Some(token), <<now>>,
                            IF user = None THEN 401 ELSE 200, user, validate(token, now))
        /\ UnchangedUsers
        /\ UnchangedTasks
        /\ UNCHANGED inflight
        /\ UNCHANGED <<tokens, now>>

(* ----------------------------- TaskService ---------------------------- *)
\* The request bodies of PUT /tasks/{id}: the fields that were set.
TaskUpdates == {<<>>, [title |-> "t2"], [is_favorite |-> TRUE],
                [title |-> "t2", status_id |-> 2]}
\* The order of the fields of TaskUpdate, which model_dump keeps.
FieldOrder == <<"title", "status_id", "is_favorite">>

\* TaskService.get_task_by_id: the task's id, or None.
get_task_by_id(task_id, user_id, is_admin) ==
    IF task_id \in DOMAIN tasks /\ (tasks[task_id].user_id = user_id \/ is_admin)
    THEN Some(task_id) ELSE None

\* TaskService.update_task: the saved row and the change records, or None.
\* old_value is read with getattr after setattr has stored the new value.
update_task(task_id, user_id, is_admin, updates) ==
    IF task_id \in DOMAIN tasks /\ (tasks[task_id].user_id = user_id \/ is_admin)
    THEN LET task == [f \in DOMAIN tasks[task_id] |->
                         IF f \in DOMAIN updates THEN updates[f] ELSE tasks[task_id][f]]
             fields == SelectSeq(FieldOrder, LAMBDA f : f \in DOMAIN updates)
         IN  Some([row |-> task,
                   log |-> [i \in 1..Len(fields) |->
                               [task |-> task_id, field_changed |-> fields[i],
                                old_value |-> task[fields[i]],
                                new_value |-> updates[fields[i]]]]])
    ELSE None

\* TaskService.delete_task.
delete_task(task_id, user_id, is_admin) ==
    task_id \in DOMAIN tasks /\ (tasks[task_id].user_id = user_id \/ is_admin)

\* The status filter is a query string; the ORM turns it into the integer that
\* it compares with the status_id column.
IntOf(str) == IF str = "1" THEN 1 ELSE 2

\* TaskService.list_tasks.  A row without expiration_date never satisfies the
\* comparison with the filter date (SQL NULL).
list_tasks(user_id, status, expiration_date, is_admin) ==
    {id \in DOMAIN tasks :
        /\ tasks[id].user_id = user_id \/ is_admin
        /\ (status # None /\ status[1] # "") => tasks[id].status_id = IntOf(status[1])
        /\ expiration_date # None =>
              /\ tasks[id].expiration_date # None
              /\ tasks[id].expiration_date[1] <= expiration_date[1]}

\* The response model Task of the task routes: expiration_date is a required
\* date, so a row without one does not validate.
Task_from_orm(row) ==
    IF row.expiration_date = None THEN "ValidationError" ELSE "Task"

\* TaskService.toggle_favorite calls get_or_none on Task, the Pydantic model of
\* models/task.py, which has no such attribute.
toggle_favorite(task_id, user_id, is_admin) == "AttributeError"

\* TaskService.get_changes_by_task_id calls select on Change, the Pydantic model
\* of models/change.py, which has no such attribute.
get_changes_by_task_id(task_id) == "AttributeError"

(* ------------------------------ task routes --------------------------- *)
IsAdmin(current_user) == current_user.role.name = "Administrator"

UnchangedAuth == UNCHANGED <<users, nextUserId, tokens, now>>

\* POST /tasks/
create_task_route(tok, title, status_id, expiration_date) ==
    LET current_user == get_current_user(tok)
        arg == <<title, status_id, expiration_date>>
        task_model == [user_id |-> current_user[1].id, title |-> title,
                       status_id |-> status_id, is_favorite |-> FALSE,
                       expiration_date |-> expiration_date]
    IN  /\ IF current_user = None
           THEN /\ UnchangedTasks
                /\ last' = Response("create_task", tok, arg, 401, None, None)
           ELSE /\ nextTaskId <= MaxTasks
                /\ tasks' = tasks @@ (nextTaskId :> task_model)
                /\ nextTaskId' = nextTaskId + 1
                /\ UNCHANGED changes
                /\ last' = IF Task_from_orm(task_model) = "ValidationError"
                           THEN Response("create_task", tok, arg, 500, current_user, None)
                           ELSE Response("create_task", tok, arg, 201, current_user,
                                         Some(nextTaskId))
        /\ UnchangedAuth
        /\ UNCHANGED inflight

\* GET /tasks/{task_id}
get_task_route(tok, task_id) ==
    LET current_user == get_current_user(tok)
        task == get_task_by_id(task_id, current_user[1].id, IsAdmin(current_user[1]))
    IN  /\ last' = IF current_user = None
                   THEN Response("get_task", tok, <<task_id>>, 401, None, None)
                   ELSE IF task = None
                   THEN Response("get_task", tok, <<task_id>>, 404, current_user, None)
                   ELSE IF Task_from_orm(tasks[task_id]) = "ValidationError"
                   THEN Response("get_task", tok, <<task_id>>, 500, current_user, None)
                   ELSE Response("get_task", tok, <<task_id>>, 200, current_user, task)
        /\ UnchangedTasks
        /\ UnchangedAuth
        /\ UNCHANGED inflight

\* PUT /tasks/{task_id}
update_task_route(tok, task_id, updates) ==
    LET current_user == get_current_user(tok)
        arg == <<task_id, updates>>
        task == update_task(task_id, current_user[1].id, IsAdmin(current_user[1]), updates)
    IN  /\ IF current_user = None
           THEN /\ UNCHANGED <<tasks, changes>>
                /\ last' = Response("update_task", tok, arg, 401, None, None)
           ELSE IF task = None
           THEN /\ UNCHANGED <<tasks, changes>>
                /\ last' = Response("update_task", tok, arg, 404, current_user, None)
           ELSE /\ Len(changes) + Len(task[1].log) <= MaxChanges
                /\ tasks' = [tasks EXCEPT ![task_id] = task[1].row]
                /\ changes' = changes \o task[1].log
                /\ last' = IF Task_from_orm(task[1].row) = "ValidationError"
                           THEN Response("update_task", tok, arg, 500, current_user, None)
                           ELSE Response("update_task", tok, arg, 200, current_user,
                                         Some(task_id))
        /\ UNCHANGED nextTaskId
        /\ UnchangedAuth
        /\ UNCHANGED inflight

\* DELETE /tasks/{task_id}
delete_task_route(tok, task_id) ==
    LET current_user == get_current_user(tok)
        success == delete_task(task_id, current_user[1].id, IsAdmin(current_user[1]))
    IN  /\ IF current_user = None
           THEN /\ UNCHANGED <<tasks, changes>>
                /\ last' = Response("delete_task", tok, <<task_id>>, 401, None, None)
           ELSE IF ~success
           THEN /\ UNCHANGED <<tasks, changes>>
                /\ last' = Response("delete_task", tok, <<task_id>>, 404, current_user, None)
           ELSE /\ tasks' = Without(tasks, {task_id})
                /\ changes' = WithoutTasks(changes, {task_id})
                /\ last' = Response("delete_task", tok, <<task_id>>, 204, current_user, None)
        /\ UNCHANGED nextTaskId
        /\ UnchangedAuth
        /\ UNCHANGED inflight

\* GET /tasks/
list_tasks_route(tok, task_status, expiration_date) ==
    LET current_user == get_current_user(tok)
        arg == <<task_status, expiration_date>>
        found == list_tasks(current_user[1].id, task_status, expiration_date,
                            IsAdmin(current_user[1]))
    IN  /\ last' = IF current_user = None
                   THEN Response("list_tasks", tok, arg, 401, None, None)
                   ELSE IF \E id \in found : Task_from_orm(tasks[id]) = "ValidationError"
                   THEN Response("list_tasks", tok, arg, 500, current_user, None)
                   ELSE Response("list_tasks", tok, arg, 200, current_user, Some(found))
        /\ UnchangedTasks
        /\ UnchangedAuth
        /\ UNCHANGED inflight

\* PATCH /tasks/{task_id}/favorite
toggle_favorite_route(tok, task_id) ==
    LET current_user == get_current_user(tok)
        task == toggle_favorite(task_id, current_user[1].id, IsAdmin(current_user[1]))
    IN  /\ last' = IF current_user = None
                   THEN Response("toggle_favorite", tok, <<task_id>>, 401, None, None)
                   ELSE IF task = "AttributeError"
                   THEN Response("toggle_favorite", tok, <<task_id>>, 500, current_user, None)
                   ELSE Response("toggle_favorite", tok, <<task_id>>, 200, current_user, None)
        /\ UnchangedTasks
        /\ UnchangedAuth
        /\ UNCHANGED inflight

\* GET /tasks/{task_id}/changes
get_task_changes_route(tok, task_id) ==
    LET current_user == get_current_user(tok)
        task == get_task_by_id(task_id, current_user[1].id, IsAdmin(current_user[1]))
    IN  /\ last' = IF current_user = None
                   THEN Response("get_task_changes", tok, <<task_id>>, 401, None, None)
                   ELSE IF task = None
                   THEN Response("get_task_changes", tok, <<task_id>>, 404, current_user, None)
                   ELSE IF get_changes_by_task_id(task_id) = "AttributeError"
                   THEN Response("get_task_changes", tok, <<task_id>>, 500, current_user, None)
                   ELSE Response("get_task_changes", tok, <<task_id>>, 200, current_user, None)
        /\ UnchangedTasks
        /\ UnchangedAuth
        /\ UNCHANGED inflight


(* ----------------------- user management routes ----------------------- *)
\* The request bodies of PUT /admin/users/{id}: one field set at a time.
UserUpdate(email, password, role_id) ==
    [email |-> email, password |-> password, role_id |-> role_id]
UserUpdates ==
    {UserUpdate(Some(e), None, None) : e \in Emails}
    \cup {UserUpdate(None, None, Some(r)) : r \in {1, 2}}
PasswordUpdates == {UserUpdate(None, Some(<<"p2">>), None)}

\* The two sides of the unresolved merge at the end of UserService.update_user:
\* HEAD returns the updated UserRead, the other side returns nothing.
MergeSides == {"HEAD", "theirs"}

\* GET /admin/users/ (the handler declares no dependency on the caller)
list_users(tok) ==
    /\ last' = Response("list_users", tok, <<>>, 200, None, Some(list_all_users))
    /\ UnchangedTasks
    /\ UnchangedAuth
    /\ UNCHANGED inflight

\* POST /admin/users/
create_user_route(tok, email, password, role_id) ==
    LET current_admin == get_current_admin(tok)
        arg == <<email, password, role_id>>
        created == create_user(email, password, role_id)
    IN  /\ IF current_admin.status # 200
           THEN /\ UnchangedUsers
                /\ last' = Response("create_user", tok, arg, current_admin.status,
                                    current_admin.user, None)
           ELSE IF created.status # 201
           THEN /\ UnchangedUsers
                /\ last' = Response("create_user", tok, arg, 500, current_admin.user, None)
           ELSE /\ nextUserId <= MaxUsers
                /\ users' = users @@ (nextUserId :> created.row[1])
                /\ nextUserId' = nextUserId + 1
                /\ last' = Response("create_user", tok, arg, 201, current_admin.user,
                                    Some(nextUserId))
        /\ UnchangedTasks
        /\ UNCHANGED inflight
        /\ UNCHANGED <<tokens, now>>

\* GET /admin/users/{user_id}
get_user(tok, user_id) ==
    LET current_admin == get_current_admin(tok)
        user == get_user_by_id(user_id)
    IN  /\ last' = IF current_admin.status # 200
                   THEN Response("get_user", tok, <<user_id>>, current_admin.status,
                                 current_admin.user, None)
                   ELSE IF user # None
                   THEN Response("get_user", tok, <<user_id>>, 200, current_admin.user, user)
                   ELSE Response("get_user", tok, <<user_id>>, 404, current_admin.user, None)
        /\ UnchangedTasks
        /\ UnchangedAuth
        /\ UNCHANGED inflight

\* PUT /admin/users/{user_id}
update_user_route(tok, user_id, user_update, salt) ==
    LET current_admin == get_current_admin(tok)
        arg == <<user_id, user_update>>
        email == user_update.email
        password == user_update.password
        role_id == user_update.role_id
        hashed_password == IF password = None THEN None
                           ELSE Some(get_password_hash(password[1], salt))
        updated == update_user(user_id, email, hashed_password, role_id)
    IN  /\ IF current_admin.status # 200
           THEN /\ UNCHANGED users
                /\ last' = Response("update_user", tok, arg, current_admin.status,
                                    current_admin.user, None)
           ELSE IF RequestValidation(email) # "ok"
           THEN /\ UNCHANGED users
                /\ last' = Response("update_user", tok, arg, 422, current_admin.user, None)
           ELSE IF \/ email # None /\ email[1] = ""
                   \/ password # None /\ Blank(password[1])
                   \/ role_id # None /\ role_id[1] = 0
           THEN /\ UNCHANGED users
                /\ last' = Response("update_user", tok, arg, 400, current_admin.user, None)
           ELSE IF updated.raise = "ValueError"
           THEN /\ UNCHANGED users
                /\ last' = Response("update_user", tok, arg, 400, current_admin.user, None)
           ELSE IF updated.raise = "HTTPException404"
           THEN /\ UNCHANGED users
                /\ last' = Response("update_user", tok, arg, 404, current_admin.user, None)
           ELSE /\ users' = [users EXCEPT ![user_id] = updated.row[1]]
                /\ \E side \in MergeSides :
                      last' = IF side = "HEAD"
                              THEN Response("update_user", tok, arg, 200,
                                            current_admin.user, Some(user_id))
                              ELSE Response("update_user", tok, arg, 404,
                                            current_admin.user, None)
        /\ UNCHANGED nextUserId
        /\ UnchangedTasks
        /\ UNCHANGED inflight
        /\ UNCHANGED <<tokens, now>>

\* DELETE /admin/users/{user_id}; the user's tasks and their changes go with
\* the row (ON DELETE CASCADE of TaskModel.user and ChangeModel.task).
delete_user(tok, user_id) ==
    LET current_admin == get_current_admin(tok)
        owned == {id \in DOMAIN tasks : tasks[id].user_id = user_id}
    IN  /\ IF current_admin.status # 200
           THEN /\ UNCHANGED <<users, tasks, changes>>
                /\ last' = Response("delete_user", tok, <<user_id>>, current_admin.status,
                                    current_admin.user, None)
           ELSE IF user_id \notin DOMAIN users
           THEN /\ UNCHANGED <<users, tasks, changes>>
                /\ last' = Response("delete_user", tok, <<user_id>>, 404,
                                    current_admin.user, None)
           ELSE /\ users' = Without(users, {user_id})
                /\ tasks' = Without(tasks, owned)
                /\ changes' = WithoutTasks(changes, owned)
                /\ last' = Response("delete_user", tok, <<user_id>>, 204,
                                    current_admin.user, None)
        /\ UNCHANGED <<nextUserId, nextTaskId, tokens, now>>
        /\ UNCHANGED inflight

\* PATCH /admin/users/{user_id}/active
toggle_user_active(tok, user_id) ==
    LET current_admin == get_current_admin(tok)
        user == get_user_by_id(user_id)
        is_active == ~user[1].is_active
    IN  /\ IF current_admin.status # 200
           THEN /\ UNCHANGED users
                /\ last' = Response("toggle_user_active", tok, <<user_id>>,
                                    current_admin.status, current_admin.user, None)
           ELSE IF user = None
           THEN /\ UNCHANGED users
                /\ last' = Response("toggle_user_active", tok, <<user_id>>, 404,
                                    current_admin.user, None)
           ELSE /\ users' = [users EXCEPT ![user_id].is_active = is_active]
                /\ last' = Response("toggle_user_active", tok, <<user_id>>, 200,
                                    current_admin.user, Some(is_active))
        /\ UNCHANGED nextUserId
        /\ UnchangedTasks
        /\ UNCHANGED inflight
        /\ UNCHANGED <<tokens, now>>

(* -------------------- handlers that overlap in time ------------------- *)
\* The clients whose requests can be in flight together, one request each.
Clients == {"c1", "c2"}

\* What a handler keeps between two accesses of the tables.
InFlight(client, op, tok, arg, principal, read) ==
    [client |-> client, op |-> op, tok |-> tok, arg |-> arg,
     principal |-> principal, read |-> read]

\* POST /register up to its existence check: the request is answered at once
\* when the body or the check refuses it, and is in flight otherwise.
register_check(client, email, password, role_id) ==
    LET arg == <<email, password, role_id>>
        existing_user == get_user_by_email(email)
    IN  /\ \A r \in inflight : r.client # client
        /\ IF RequestValidation(Some(email)) # "ok"
           THEN /\ UNCHANGED inflight
                /\ last' = Response("register", None, arg, 422, None, None)
           ELSE IF existing_user # None
           THEN /\ UNCHANGED inflight
                /\ last' = Response("register", None, arg, 400, None, None)
           ELSE /\ inflight' = inflight \cup
                                 {InFlight(client, "register", None, arg, None, None)}
                /\ last' = Response("register_check", None, arg, 0, None, None)
        /\ UnchangedUsers
        /\ UnchangedTasks
        /\ UNCHANGED <<tokens, now>>

\* POST /register from UserService.create_user on: the insert, which the
\* unique index on email can refuse, and the response.
register_create(req, salt) ==
    LET email == req.arg[1]
        hashed_password == get_password_hash(req.arg[2], salt)
        created == create_user(email, hashed_password, req.arg[3])
    IN  /\ req \in inflight
        /\ req.op = "register"
        /\ IF created.status # 201
           THEN /\ UnchangedUsers
                /\ last' = Response("register", None, req.arg, created.status, None, None)
           ELSE /\ nextUserId <= MaxUsers
                /\ users' = users @@ (nextUserId :> created.row[1])
                /\ nextUserId' = nextUserId + 1
                /\ last' = Response("register", None, req.arg, 201, None, Some(nextUserId))
        /\ inflight' = inflight \ {req}
        /\ UnchangedTasks
        /\ UNCHANGED <<tokens, now>>

\* PATCH /admin/users/{user_id}/active up to UserService.get_user_by_id: the
\* handler holds the is_active flag that it read.
toggle_user_active_read(client, tok, user_id) ==
    LET current_admin == get_current_admin(tok)
        user == get_user_by_id(user_id)
    IN  /\ \A r \in inflight : r.client # client
        /\ IF current_admin.status # 200
           THEN /\ UNCHANGED inflight
                /\ last' = Response("toggle_user_active", tok, <<user_id>>,
                                    current_admin.status, current_admin.user, None)
           ELSE IF user = None
           THEN /\ UNCHANGED inflight
                /\ last' = Response("toggle_user_active", tok, <<user_id>>, 404,
                                    current_admin.user, None)
           ELSE /\ inflight' = inflight \cup
                                 {InFlight(client, "toggle_user_active", tok, <<user_id>>,
                                           current_admin.user, Some(user[1].is_active))}
                /\ last' = Response("toggle_user_active_read", tok, <<user_id>>, 0,
                                    current_admin.user, None)
        /\ UnchangedUsers
        /\ UnchangedTasks
        /\ UNCHANGED <<tokens, now>>

\* PATCH /admin/users/{user_id}/active from UserService.update_user_status on:
\* the negation of the flag that was read is stored (nothing is stored when the
\* row has gone, and the result of update_user_status is not looked at).
toggle_user_active_write(req) ==
    LET user_id == req.arg[1]
        is_active == ~req.read[1]
    IN  /\ req \in inflight
        /\ req.op = "toggle_user_active"
        /\ users' = IF user_id \in DOMAIN users
                    THEN [users EXCEPT ![user_id].is_active = is_active]
                    ELSE users
        /\ last' = Response("toggle_user_active", req.tok, req.arg, 200, req.principal,
                            Some(is_active))
        /\ inflight' = inflight \ {req}
        /\ UNCHANGED nextUserId
        /\ UnchangedTasks
        /\ UNCHANGED <<tokens, now>>

(* ------------------------------ the system ---------------------------- *)
UserIds == 1..MaxUsers
TaskIds == 1..MaxTasks

\* The session subsystem: registration, login, the admin user routes, the
\* clock, and the session check of a task request.
Next ==
    \/ \E e \in Emails, p \in {<<"p1">>}, r \in {1, 2}, s \in Salts : register(e, p, r, s)
    \/ \E e \in Emails, p \in Passwords : login(e, p)
    \/ Tick(1)
    \/ \E t \in tokens : discard_token(t)
    \/ \E tok \in ReqTokens, id \in TaskIds : get_task_route(tok, id)
    \/ \E tok \in ReqTokens : list_users(tok)
    \/ \E tok \in ReqTokens, e \in Emails, p \in {<<"p1">>}, r \in {2} :
          create_user_route(tok, e, p, r)
    \/ \E tok \in ReqTokens, id \in UserIds : get_user(tok, id)
    \/ \E tok \in ReqTokens, id \in UserIds, u \in UserUpdates, s \in Salts :
          update_user_route(tok, id, u, s)
    \/ \E tok \in ReqTokens, id \in UserIds : delete_user(tok, id)
    \/ \E tok \in ReqTokens, id \in UserIds : toggle_user_active(tok, id)

Spec == Init /\ [][Next]_vars

\* The credential subsystem: the routes that write or check a stored secret.
NextCredentials ==
    \/ \E e \in Emails, r \in {1, 2}, s \in Salts : register(e, <<"p1">>, r, s)
    \/ \E e \in Emails, p \in Passwords : login(e, p)
    \/ \E t \in tokens : discard_token(t)
    \/ \E tok \in ReqTokens, e \in Emails, r \in {1, 2} :
          create_user_route(tok, e, <<"p1">>, r)
    \/ \E tok \in ReqTokens, id \in UserIds, u \in PasswordUpdates, s \in Salts :
          update_user_route(tok, id, u, s)

SpecCredentials == Init /\ [][NextCredentials]_vars

\* Account management: registration and the admin user routes with empty and
\* unknown values in the request.
AccountEmails == Emails \cup {""}
AccountPasswords == {<<"p1">>, <<"">>}
AccountRoleIds == {0, 1, 2, 3}
AccountUpdates ==
    {UserUpdate(Some(e), None, None) : e \in {"", "b@x.io"}}
    \cup {UserUpdate(None, Some(<<" ">>), None)}
    \cup {UserUpdate(None, None, Some(r)) : r \in {0, 1, 3}}

NextAccounts ==
    \/ \E e \in AccountEmails, p \in AccountPasswords, r \in AccountRoleIds, s \in Salts :
          register(e, p, r, s)
    \/ \E e \in Emails : login(e, <<"p1">>)
    \/ \E t \in tokens : discard_token(t)
    \/ \E tok \in ReqTokens, e \in Emails, r \in {2, 3} :
          create_user_route(tok, e, <<"p1">>, r)
    \/ \E tok \in ReqTokens, id \in UserIds, u \in AccountUpdates, s \in Salts :
          update_user_route(tok, id, u, s)
    \/ \E tok \in ReqTokens, id \in UserIds : delete_user(tok, id)
    \/ \E tok \in ReqTokens, id \in UserIds : toggle_user_active(tok, id)

SpecAccounts == Init /\ [][NextAccounts]_vars

\* The token service: issuance with any ttl, the clock, and validation.
NextToken ==
    \/ \E data \in TokenData, ttl \in Ttls : issue(data, ttl)
    \/ \E tok \in ReqTokens \ {None} : authenticate(tok[1])
    \/ \E d \in {0, 1} : Tick(d)
    \/ \E s \in Salts : register("a@x.io", <<"p1">>, 2, s)

SpecToken == Init /\ [][NextToken]_vars

\* Bearer authentication of requests: tokens of every kind reach a task route
\* and an admin route.  Malformed is a bearer string that is not a JWT.
Malformed == [claims |-> [sub |-> None, exp |-> 0], sig |-> <<>>]
BearerData == {[sub |-> Some("a@x.io")], [sub |-> Some("b@x.io")], [sub |-> None]}
BearerTokens == ReqTokens \cup {Some(Malformed)}

NextBearer ==
    \/ \E r \in {1, 2}, s \in Salts : register("a@x.io", <<"p1">>, r, s)
    \/ \E data \in BearerData : issue(data, None)
    \/ Tick(1)
    \/ \E t \in tokens : discard_token(t)
    \/ \E tok \in BearerTokens, id \in TaskIds : get_task_route(tok, id)
    \/ \E tok \in BearerTokens, id \in UserIds : get_user(tok, id)

SpecBearer == Init /\ [][NextBearer]_vars

\* The task subsystem: principals register and log in, then use the task routes.
NextTasks ==
    \/ \E e \in Emails, r \in {1, 2}, s \in Salts : register(e, <<"p1">>, r, s)
    \/ \E e \in Emails : login(e, <<"p1">>)
    \/ \E t \in tokens : discard_token(t)
    \/ \E tok \in ReqTokens, t \in {"t1"}, st \in {1}, d \in {None, Some(1), Some(3)} :
          create_task_route(tok, t, st, d)
    \/ \E tok \in ReqTokens, id \in TaskIds : get_task_route(tok, id)
    \/ \E tok \in ReqTokens, id \in TaskIds, u \in TaskUpdates : update_task_route(tok, id, u)
    \/ \E tok \in ReqTokens, id \in TaskIds : delete_task_route(tok, id)
    \/ \E tok \in ReqTokens, st \in {None, Some("1")}, d \in {None, Some(2)} :
          list_tasks_route(tok, st, d)
    \/ \E tok \in ReqTokens, id \in TaskIds : toggle_favorite_route(tok, id)
    \/ \E tok \in ReqTokens, id \in TaskIds : get_task_changes_route(tok, id)

SpecTasks == Init /\ [][NextTasks]_vars

\* Profile updates: the admin update route with bodies that set one field or
\* several, of which some are refused, and the logins that follow.
ProfileUpdates ==
    {UserUpdate(Some("b@x.io"), None, None),
     UserUpdate(None, Some(<<"p2">>), None),
     UserUpdate(None, None, Some(1)),
     UserUpdate(None, None, Some(2)),
     UserUpdate(Some("b@x.io"), Some(<<"p2">>), Some(2)),
     UserUpdate(Some("b@x.io"), None, Some(3)),
     UserUpdate(Some("b@x.io"), Some(<<" ">>), None),
     UserUpdate(Some("o'c@x.io"), Some(<<"p2">>), None),
     UserUpdate(Some(""), None, Some(2)),
     UserUpdate(None, Some(<<"p2">>), Some(0))}

NextUpdates ==
    \/ \E e \in Emails, r \in {1, 2}, s \in Salts : register(e, <<"p1">>, r, s)
    \/ \E e \in Emails, p \in Passwords : login(e, p)
    \/ \E t \in tokens : discard_token(t)
    \/ \E tok \in ReqTokens, id \in UserIds, u \in ProfileUpdates, s \in Salts :
          update_user_route(tok, id, u, s)

SpecUpdates == Init /\ [][NextUpdates]_vars

\* Role changes: an Administrator changes roles while tokens are in use on
\* the admin user routes and on the tasks.
RoleUpdates == {UserUpdate(None, None, Some(r)) : r \in {1, 2}}

NextRoles ==
    \/ \E e \in Emails, r \in {1, 2}, s \in Salts : register(e, <<"p1">>, r, s)
    \/ \E e \in Emails : login(e, <<"p1">>)
    \/ \E t \in tokens : discard_token(t)
    \/ \E tok \in ReqTokens, id \in UserIds, u \in RoleUpdates, s \in Salts :
          update_user_route(tok, id, u, s)
    \/ \E tok \in ReqTokens : list_users(tok)
    \/ \E tok \in ReqTokens, id \in UserIds : get_user(tok, id)
    \/ \E tok \in ReqTokens : create_task_route(tok, "t1", 1, Some(1))
    \/ \E tok \in ReqTokens, id \in TaskIds : get_task_route(tok, id)

SpecRoles == Init /\ [][NextRoles]_vars

\* Requests that overlap: two clients register, log in and toggle is_active,
\* and a handler's accesses of the tables interleave with the other client's.
NextConcurrent ==
    \/ \E c \in Clients, e \in Emails, r \in {1, 2} : register_check(c, e, <<"p1">>, r)
    \/ \E req \in inflight, s \in Salts : register_create(req, s)
    \/ \E e \in Emails, p \in Passwords : login(e, p)
    \/ \E t \in tokens : discard_token(t)
    \/ \E c \in Clients, tok \in ReqTokens, id \in UserIds : toggle_user_active_read(c, tok, id)
    \/ \E req \in inflight : toggle_user_active_write(req)

SpecConcurrent == Init /\ [][NextConcurrent]_vars


(* ============================== claims =============================== *)
TaskIdOps == {"get_task", "update_task", "delete_task", "toggle_favorite",
              "get_task_changes"}
AdminOps == {"list_users", "create_user", "get_user", "update_user", "delete_user",
             "toggle_user_active"}
\* The operations of the identity subsystem that check a bearer token.
BearerOps == {"get_task", "create_user", "get_user", "update_user", "delete_user",
              "toggle_user_active"}
Succeeded(r) == r.status \in {200, 201, 204}
SignatureVerifies(jwt) == jwt.sig = <<SECRET_KEY, jwt.claims>>

\* C1: every task operation that takes a task id succeeds for an authenticated
\* principal if and only if the task exists and the principal is an
\* Administrator or the task's owner.
C1_TaskOpSucceedsIffPermitted ==
    [][(last'.op \in TaskIdOps /\ last'.principal # None) =>
          LET p == last'.principal[1]
              id == last'.arg[1]
          IN  Succeeded(last') <=>
                 /\ id \in DOMAIN tasks
                 /\ p.role.name = "Administrator" \/ tasks[id].user_id = p.id]_vars

\* C2: the stored secret of every principal is a hash output and never the
\* plaintext password, whichever operation wrote it.
C2_StoredSecretIsHash ==
    \A id \in DOMAIN users :
        identify(users[id].password) /\ users[id].password \notin Passwords

\* The caller of a request is authenticated as an Administrator.
CallerIsAdministrator(tok) ==
    /\ tok # None
    /\ validate(tok[1], now) # None
    /\ \E id \in DOMAIN users :
          /\ users[id].email = validate(tok[1], now)[1]
          /\ roles[users[id].role] = "Administrator"

\* C3: every operation of the admin user-management router is carried out only
\* for a caller authenticated as an Administrator; for any other caller it is
\* refused, and no principal is returned, created, changed or deleted.
C3_AdminRouterOnlyForAdministrators ==
    [][(last'.op \in AdminOps /\ ~CallerIsAdministrator(last'.tok)) =>
          /\ last'.status \in {401, 403}
          /\ last'.out = None
          /\ users' = users]_vars

\* C4: get_current_user accepts a bearer token only if its signature verifies
\* under the signing key and it carries a subject claim; a token whose
\* signature was altered, or whose subject claim is absent, is rejected.
C4_AcceptsOnlySignedWithSubject ==
    last.op = "authenticate" =>
        LET jwt == last.tok[1]
        IN  /\ last.status = 200 => SignatureVerifies(jwt) /\ jwt.claims.sub # None
            /\ (~SignatureVerifies(jwt) \/ jwt.claims.sub = None) =>
                  last.status = 401 /\ last.principal = None /\ last.out = None

\* A token with an altered signature is rejected although the token it was made
\* from is accepted at that moment.
C4_Witness ==
    /\ last.op = "authenticate"
    /\ last.status = 401
    /\ \E t \in tokens :
          /\ last.tok[1] = Tamper(t.jwt)
          /\ AuthService_get_current_user(t.jwt) # None

\* C5: a token is accepted only while now < expires_at: at now = expires_at and
\* at every later time validation returns Invalid.
C5_RejectedFromExpiresAt ==
    (last.op = "authenticate" /\ last.arg[1] >= last.tok[1].claims.exp) =>
        last.out = None

\* C6: create_access_token produces expires_at = now + ttl for every ttl the
\* caller supplies, zero and negative durations included.
C6_ExpiresAtIsNowPlusTtl ==
    (last.op = "issue" /\ last.arg[2] # None) =>
        last.out[1].claims.exp = last.arg[3] + last.arg[2][1]

\* C7: for every subject s and ttl > 0, validating the token returned by
\* issue(s, ttl) immediately after issuance yields exactly s.
C7_ValidateAfterIssueYieldsSubject ==
    last.op = "authenticate" =>
        \A t \in tokens :
            (/\ t.jwt = last.tok[1]
             /\ t.data.sub # None
             /\ t.ttl # None /\ t.ttl[1] > 0
             /\ t.at = last.arg[1]) => last.out = t.data.sub

C7_Witness ==
    /\ last.op = "authenticate"
    /\ \E t \in tokens :
          /\ t.jwt = last.tok[1]
          /\ t.ttl # None /\ t.ttl[1] > 0
          /\ t.at = last.arg[1]
          /\ t.at > 0
          /\ last.out = t.data.sub
          /\ last.out # None

\* C8: a login ends Authenticated if and only if a principal with exactly that
\* email exists and the password verifies against its stored hash, otherwise
\* Rejected; the token's subject is that email, and a rejection issues no token.
C8_LoginAuthenticatedIffVerified ==
    [][last'.op = "login" =>
          LET email == last'.arg[1]
              password == last'.arg[2]
              verified == \E id \in DOMAIN users :
                              /\ users[id].email = email
                              /\ identify(users[id].password)
                              /\ users[id].password =
                                     get_password_hash(password, users[id].password[2])
          IN  IF verified
              THEN /\ last'.status = 200
                   /\ last'.out # None
                   /\ last'.out[1].claims.sub = Some(email)
              ELSE /\ last'.status = 401
                   /\ last'.out = None
                   /\ tokens' = tokens]_vars

\* C9: request authentication with a bearer token is rejected when validation
\* yields Invalid or no principal has the subject as its email at that moment;
\* otherwise the principal attached to the request is the stored principal
\* with that email, with its current role.
C9_RequestAuthentication ==
    [][last'.op \in BearerOps =>
          LET tok == last'.tok
              subject == IF tok = None THEN None ELSE validate(tok[1], now)
              holders == IF subject = None THEN {}
                         ELSE {id \in DOMAIN users : users[id].email = subject[1]}
          IN  IF holders = {}
              THEN last'.status = 401 /\ last'.principal = None
              ELSE /\ last'.status # 401
                   /\ last'.principal # None
                   /\ \E id \in holders :
                         /\ last'.principal[1].id = id
                         /\ last'.principal[1].email = users[id].email
                         /\ last'.principal[1].role_id = users[id].role
                         /\ last'.principal[1].role.name = roles[users[id].role]]_vars

\* A token that still validates is rejected: its principal is gone, or has
\* another email by now.
C9_Witness ==
    /\ last.op \in BearerOps
    /\ last.status = 401
    /\ last.tok # None
    /\ validate(last.tok[1], now) # None
    /\ \E t \in tokens : t.jwt = last.tok[1] /\ t.holder # None

\* C10: no deactivate, delete or update operation changes the validation result
\* of an issued token, and a principal deactivated after the token was issued
\* is still authenticated by it on task requests.
C10_NoRevocation ==
    [][/\ last'.op \in {"toggle_user_active", "delete_user", "update_user"} =>
             \A t \in tokens : validate(t.jwt, now') = validate(t.jwt, now)
       /\ last'.op = "get_task" =>
             \A t \in tokens : \A id \in DOMAIN users :
                 (/\ last'.tok = Some(t.jwt)
                  /\ validate(t.jwt, now) = Some(users[id].email)
                  /\ ~users[id].is_active) =>
                     /\ last'.status \in {200, 404}
                     /\ last'.principal # None
                     /\ last'.principal[1].id = id]_vars

\* A principal that was active when it logged in and is inactive now has a
\* task request authenticated by the token of that login.
C10_Witness ==
    /\ last.op = "get_task"
    /\ last.status \in {200, 404}
    /\ last.principal # None
    /\ ~last.principal[1].is_active
    /\ \E t \in tokens :
          /\ last.tok = Some(t.jwt)
          /\ t.holder # None
          /\ t.holder[1].id = last.principal[1].id
          /\ t.holder[1].is_active

\* The password is not the one the stored secret was made from.
NonMatching(stored, password) ==
    /\ stored # password
    /\ identify(stored) => stored # get_password_hash(password, stored[2])

\* What the caller of a request sees of its response.
Visible(r) == [status |-> r.status, detail |-> r.detail, out |-> r.out]

\* C11: a login with a non-matching password for an existing email gets the
\* same caller-visible response as the same login in the state that differs
\* only in that no principal has that email.
C11_FailedLoginUniform ==
    [][last'.op = "login" =>
          LET email == last'.arg[1]
              password == last'.arg[2]
              holders == get_user_by_email_login(users, email)
              absent == authenticate_user_over(Without(users, holders), email, password)
              unknown == Response("login", None, last'.arg, login_status(absent),
                                  None, None)
          IN  (\E id \in holders : NonMatching(users[id].password, password)) =>
                 Visible(last') = Visible(unknown)]_vars


\* C12: a request whose bearer token fails, in whichever way (expired,
\* malformed, mis-signed, without subject, subject of no principal), gets the
\* same caller-visible response as the same request without a token.
C12_TokenFailuresUniform ==
    [][(last'.op \in {"get_task", "get_user"} /\ get_current_user(last'.tok) = None) =>
          Visible(last') =
              Visible(Response(last'.op, None, last'.arg, 401, None, None))]_vars


\* C13: for a non-admin principal an operation on a task of another principal
\* gets the response of a task id that does not exist, "Task not found"; the
\* owner and an Administrator succeed on the task.
C13_OthersTaskLooksAbsent ==
    [][(last'.op \in TaskIdOps /\ last'.principal # None) =>
          LET p == last'.principal[1]
              id == last'.arg[1]
              permitted == p.role.name = "Administrator" \/ tasks[id].user_id = p.id
              not_found == Response(last'.op, last'.tok, last'.arg, 404,
                                    last'.principal, None)
          IN  /\ id \notin DOMAIN tasks => Visible(last') = Visible(not_found)
              /\ (id \in DOMAIN tasks /\ ~permitted) =>
                    Visible(last') = Visible(not_found)
              /\ (id \in DOMAIN tasks /\ permitted) => Succeeded(last')]_vars


\* The tasks that match the optional filters of a listing.
Matching(status, date) ==
    {id \in DOMAIN tasks :
        /\ status # None => tasks[id].status_id = IntOf(status[1])
        /\ date # None => /\ tasks[id].expiration_date # None
                          /\ tasks[id].expiration_date[1] <= date[1]}

\* C14: list_tasks returns to a non-admin principal exactly the matching tasks
\* that it owns, and to an Administrator the matching tasks of all owners.
C14_ListIsOwnMatchingTasks ==
    [][(last'.op = "list_tasks" /\ last'.principal # None) =>
          LET p == last'.principal[1]
              matching == Matching(last'.arg[1], last'.arg[2])
              expected == IF p.role.name = "Administrator" THEN matching
                          ELSE {id \in matching : tasks[id].user_id = p.id}
          IN  last'.status = 200 /\ last'.out = Some(expected)]_vars


\* C15: registering with an email that is in use fails with the Conflict
\* outcome (400 "Email already registered"), creates no principal and leaves
\* every stored principal as it was.
C15_DuplicateEmailRefused ==
    [][(last'.op = "register" /\ \E id \in DOMAIN users : users[id].email = last'.arg[1]) =>
          /\ last'.status = 400
          /\ last'.detail = "Email already registered"
          /\ last'.out = None
          /\ users' = users
          /\ nextUserId' = nextUserId]_vars

C15_Witness ==
    /\ last.op = "register"
    /\ last.status = 400
    /\ \E id \in DOMAIN users :
          /\ users[id].email = last.arg[1]
          /\ users[id].password # get_password_hash(last.arg[2], "s1")

\* C16: every stored principal has a role that is a record of the role table.
C16_RoleAlwaysExists ==
    \A id \in DOMAIN users : users[id].role \in DOMAIN roles

\* An update to a role that does not exist was refused for a stored principal,
\* whose role is as before.
C16_Witness ==
    /\ last.op = "update_user"
    /\ last.status = 400
    /\ last.arg[2].role_id = Some(3)
    /\ last.arg[1] \in DOMAIN users
    /\ users[last.arg[1]].role \in DOMAIN roles

\* C17: registration with a role identifier that is not in the role table
\* fails with an error and leaves the set of stored principals unchanged.
C17_UnknownRoleRefused ==
    [][(last'.op = "register" /\ last'.arg[3] \notin DOMAIN roles) =>
          /\ last'.status \in {400, 404, 422}
          /\ last'.out = None
          /\ users' = users]_vars

\* An otherwise acceptable registration was refused for its role alone.
C17_Witness ==
    /\ last.op = "register"
    /\ last.arg[3] = 3
    /\ last.status = 404
    /\ last.arg[1] \in EmailStrs
    /\ ~Blank(last.arg[2])
    /\ \A id \in DOMAIN users : users[id].email # last.arg[1]

\* A request value that is empty: an empty or whitespace-only string, role 0.
EmptyField(email, password, role_id) ==
    \/ email # None /\ email[1] \in {"", " "}
    \/ password # None /\ Blank(password[1])
    \/ role_id # None /\ role_id[1] = 0

\* The statuses of a request refused for its values: the handler's 400, the
\* 422 of request validation, the 404 of the role lookup.
RefusedStatuses == {400, 404, 422}

\* C18: a register or update_user request with an empty email, password or
\* role is rejected as a validation error, and no principal is created or
\* changed.
C18_EmptyFieldsRejected ==
    [][/\ (last'.op = "register" /\ EmptyField(Some(last'.arg[1]), Some(last'.arg[2]),
                                                Some(last'.arg[3]))) =>
             last'.status \in RefusedStatuses /\ users' = users
       /\ (/\ last'.op = "update_user"
           /\ CallerIsAdministrator(last'.tok)
           /\ EmptyField(last'.arg[2].email, last'.arg[2].password, last'.arg[2].role_id)) =>
             last'.status \in RefusedStatuses /\ users' = users]_vars


\* C19: while a principal is as register stored it, login with the registered
\* password is Authenticated with a token that resolves to that principal; and
\* a request with the token of a login, before it expires and while the
\* principal keeps its email, is authenticated as the principal that logged
\* in, with its id, email and role.
C19_RegisterLoginResolves ==
    [][/\ last'.op = "login" =>
             \A id \in DOMAIN users :
                 (/\ users[id].email = last'.arg[1]
                  /\ \E salt \in Salts :
                        users[id].password = get_password_hash(last'.arg[2], salt)) =>
                     /\ last'.status = 200
                     /\ last'.out # None
                     /\ validate(last'.out[1], now) = Some(users[id].email)
                     /\ AuthService_get_current_user(last'.out[1]) = Some(UserRead(id))
       /\ last'.op = "get_task" =>
             \A t \in tokens :
                 (/\ last'.tok = Some(t.jwt)
                  /\ t.holder # None
                  /\ now < t.jwt.claims.exp
                  /\ t.holder[1].id \in DOMAIN users
                  /\ users[t.holder[1].id].email = t.data.sub[1]) =>
                     last'.principal = Some(UserRead(t.holder[1].id))]_vars

\* A request is authenticated with the token of a login as the principal that
\* logged in.
C19_Witness ==
    /\ last.op = "get_task"
    /\ last.principal # None
    /\ \E t \in tokens :
          /\ last.tok = Some(t.jwt)
          /\ t.holder # None
          /\ t.holder[1].id = last.principal[1].id
          /\ t.data.sub = Some(last.principal[1].email)
          /\ \E salt \in Salts :
                users[last.principal[1].id].password = get_password_hash(<<"p1">>, salt)

\* C20: a login against a principal whose stored secret is not a well-formed
\* hash ends Rejected with the InvalidCredentials outcome, not in a fault.
C20_MalformedSecretRejectsLogin ==
    [][(/\ last'.op = "login"
        /\ \E id \in DOMAIN users :
              users[id].email = last'.arg[1] /\ ~identify(users[id].password)) =>
          /\ last'.status = 401
          /\ last'.detail = "Invalid credentials"
          /\ last'.out = None
          /\ tokens' = tokens]_vars

\* The response of a login that runs on its own against a user table at time t.
LoginAlone(table, email, password, t) ==
    LET user == authenticate_user_over(table, email, password)
        access_token == create_access_token([sub |-> Some(email)], None, t)
    IN  Response("login", None, <<email, password>>, login_status(user), None,
                 IF user.outcome = "user" THEN Some(access_token) ELSE None)

\* C21: a login changes no persisted state (principals, tasks, change history,
\* and what other handlers hold), so that however two logins for one email
\* interleave with each other and with other requests, each gets the response
\* that it gets on its own, and leaves the tables such that the next one does.
C21_LoginLeavesStateAlone ==
    [][last'.op = "login" =>
          /\ users' = users
          /\ nextUserId' = nextUserId
          /\ tasks' = tasks
          /\ nextTaskId' = nextTaskId
          /\ changes' = changes
          /\ inflight' = inflight
          /\ last' = LoginAlone(users, last'.arg[1], last'.arg[2], now)
          /\ last' = LoginAlone(users', last'.arg[1], last'.arg[2], now')]_vars

\* A login for an email was refused at the instant at which another login for
\* the same email was given a token, while another request was in flight.
C21_Witness ==
    /\ last.op = "login"
    /\ last.status = 401
    /\ inflight # {}
    /\ \E t \in tokens :
          /\ t.holder # None
          /\ t.data.sub = Some(last.arg[1])
          /\ t.at = now
          /\ t.holder[1].id \in DOMAIN users

\* C22: list_users returns all registered principals: the ids of every row of
\* the user table, whatever its role, and nothing else.
C22_ListUsersReturnsAll ==
    [][last'.op = "list_users" =>
          /\ last'.status = 200
          /\ last'.out = Some(DOMAIN users)]_vars

\* C23: an update that update_user persisted is answered with the updated
\* principal, whose stored row carries the new email and role, and the admin
\* update endpoint answers "User not found" only when no principal has the id,
\* never after an update was persisted.
C23_UpdateReturnsPrincipal ==
    [][last'.op = "update_user" =>
          LET user_id == last'.arg[1]
              body == last'.arg[2]
          IN  /\ users' # users =>
                    /\ last'.status = 200
                    /\ last'.out = Some(user_id)
                    /\ body.email # None => users'[user_id].email = body.email[1]
                    /\ body.role_id # None => users'[user_id].role = body.role_id[1]
              /\ (last'.status = 404 /\ last'.detail = "User not found") =>
                    /\ user_id \notin DOMAIN users
                    /\ users' = users]_vars

\* C24: every successful update_task appends exactly one change record per
\* updated field, in which field_changed names the field, old_value is the
\* value before the update and new_value the value after it; a denied update
\* appends none.
C24_ChangeRecordsOldAndNew ==
    [][last'.op = "update_task" =>
          LET task_id == last'.arg[1]
              updates == last'.arg[2]
              fields == SelectSeq(FieldOrder, LAMBDA f : f \in DOMAIN updates)
          IN  /\ last'.status = 200 =>
                    changes' = changes \o
                        [i \in 1..Len(fields) |->
                            [task |-> task_id, field_changed |-> fields[i],
                             old_value |-> tasks[task_id][fields[i]],
                             new_value |-> tasks'[task_id][fields[i]]]]
              /\ last'.status \in {401, 404} => changes' = changes]_vars

\* The checks of an update that the request body or the tables fail.
CheckFails(user_id, body) ==
    \/ body.email # None /\ body.email[1] = ""
    \/ body.password # None /\ Blank(body.password[1])
    \/ body.role_id # None /\ body.role_id[1] = 0
    \/ body.email # None /\ ~email_format(body.email[1])
    \/ body.email # None /\ \E id \in DOMAIN users :
                               users[id].email = body.email[1] /\ id # user_id
    \/ body.role_id # None /\ body.role_id[1] \notin DOMAIN roles
    \/ user_id \notin DOMAIN users

\* C25: update_user is all-or-nothing: when any check fails (an empty email or
\* password, role id 0, an email of invalid format or of another principal, an
\* unknown role id, an unknown user id), the request is refused and no stored
\* email, secret, role or other column of any principal changes, also when
\* other fields of the request were valid.
C25_UpdateAllOrNothing ==
    [][(last'.op = "update_user" /\ CheckFails(last'.arg[1], last'.arg[2])) =>
          /\ users' = users
          /\ nextUserId' = nextUserId
          /\ ~Succeeded(last')]_vars

\* An Administrator's update of a stored principal was refused for its unknown
\* role, and the email of the same request, which is valid, free and not the
\* principal's, was not stored.
C25_Witness ==
    /\ last.op = "update_user"
    /\ last.status = 400
    /\ last.principal # None
    /\ last.arg[2] = UserUpdate(Some("b@x.io"), None, Some(3))
    /\ last.arg[1] \in DOMAIN users
    /\ \A id \in DOMAIN users : users[id].email # "b@x.io"

\* C26: a token issued at login to a principal P never authenticates a request
\* as another principal: whatever emails were updated and principals deleted,
\* registered or created since, a request with the token is authenticated as P
\* or not at all.
C26_TokenBoundToPrincipal ==
    [][last'.op \in BearerOps =>
          \A t \in tokens :
              (last'.tok = Some(t.jwt) /\ t.holder # None) =>
                  \/ last'.principal = None
                  \/ last'.principal[1].id = t.holder[1].id]_vars

\* C27: when register requests for one email overlap (each passes the
\* existence check before the other creates), exactly one principal is stored
\* and the request that loses ends in Conflict ("Email already registered"),
\* not in an internal error; no two stored principals share an email.
C27_RegisterRaceConflict ==
    [][last'.op = "register" =>
          /\ (\E id \in DOMAIN users : users[id].email = last'.arg[1]) =>
                /\ last'.status = 400
                /\ last'.detail = "Email already registered"
                /\ users' = users
          /\ \A i, j \in DOMAIN users' : users'[i].email = users'[j].email => i = j]_vars

\* C28: each completed toggle_user_active inverts the stored is_active flag of
\* its principal (so that after n completed toggles, however they interleave,
\* the flag is the initial one exactly when n is even), and the message of the
\* request reports the value that it stored.
C28_ToggleInverts ==
    [][(last'.op = "toggle_user_active" /\ last'.status = 200) =>
          LET user_id == last'.arg[1]
          IN  /\ user_id \in DOMAIN users
              /\ users'[user_id].is_active = ~users[user_id].is_active
              /\ last'.out = Some(users'[user_id].is_active)]_vars

\* C29: after an admin update_user that sets the password of a principal to
\* p2, login(email, p2) is Authenticated and a login with any other password
\* (the previous p1) is Rejected; an update that carries no password leaves
\* the stored secret unchanged, so that every password logs in or not as it
\* did before; and every login is decided by the secret stored at that time.
\* (An update of a stored principal was saved when the answer is 200, and also
\* when it is the 404 of the side of the merge that returns nothing.)
C29_PasswordUpdateTakesEffect ==
    [][/\ (/\ last'.op = "update_user"
           /\ last'.arg[1] \in DOMAIN users
           /\ last'.status \in {200, 404}) =>
             LET user_id == last'.arg[1]
                 body == last'.arg[2]
                 email == users'[user_id].email
             IN  IF body.password # None
                 THEN \A q \in Passwords :
                         LoginAlone(users', email, q, now).status =
                            IF q = body.password[1] THEN 200 ELSE 401
                 ELSE /\ users'[user_id].password = users[user_id].password
                      /\ \A q \in Passwords :
                            LoginAlone(users', email, q, now).status =
                               LoginAlone(users, users[user_id].email, q, now).status
       /\ last'.op = "login" =>
             \A id \in DOMAIN users :
                 users[id].email = last'.arg[1] =>
                    (last'.status = 200 <=>
                        \E salt \in Salts :
                           users[id].password = get_password_hash(last'.arg[2], salt))
       /\ last'.op = "login" => last'.status \in {200, 401}]_vars

\* A login with p2 was Authenticated for a principal whose secret an update
\* has set to p2 (registration stores p1 only).
C29_Witness ==
    /\ last.op = "login"
    /\ last.status = 200
    /\ last.arg[2] = <<"p2">>
    /\ \E id \in DOMAIN users, salt \in Salts :
          /\ users[id].email = last.arg[1]
          /\ users[id].password = get_password_hash(<<"p2">>, salt)

\* C30: the role is resolved on every request, not fixed in the token: a
\* request with the unexpired token of a login is judged by the role that its
\* principal has at that moment.  While the role is User (after a change from
\* Administrator) the request is refused on every admin user-management
\* operation and reaches only the principal's own tasks; while it is
\* Administrator (after a change from User) the same token has administrator
\* access.
C30_RoleResolvedPerRequest ==
    [][\A t \in tokens :
          (/\ last'.tok = Some(t.jwt)
           /\ t.holder # None
           /\ validate(t.jwt, now) # None
           /\ t.holder[1].id \in DOMAIN users
           /\ Some(users[t.holder[1].id].email) = validate(t.jwt, now)) =>
              LET id == t.holder[1].id
                  role == roles[users[id].role]
              IN  /\ last'.op \in AdminOps =>
                        IF role = "Administrator"
                        THEN last'.status \notin {401, 403}
                        ELSE /\ last'.status \in {401, 403}
                             /\ last'.out = None
                             /\ users' = users
                  /\ last'.op = "get_task" =>
                        (Succeeded(last') <=>
                            /\ last'.arg[1] \in DOMAIN tasks
                            /\ \/ role = "Administrator"
                               \/ tasks[last'.arg[1]].user_id = id)]_vars

====
